---- MODULE Spec2Model ----
(***************************************************************************)
(* A model of utils.py as listed in 00-Preface-to-this-readalong.ipynb:    *)
(* the table helpers (compute, extend_timeseries), the residual            *)
(* computation of plot_tsresiduals and the accuracy metrics (RMSE, MAE,    *)
(* MAPE, MASE, tsaccuracy).                                                *)
(*                                                                         *)
(* Timestamps are integers (ticks); a frequency is a positive number of    *)
(* ticks.  A table is a record                                             *)
(*    [index, freq, columns, data]                                         *)
(* index: the sequence of row labels, freq: the index's frequency,         *)
(* columns: the sequence of column names, data: label -> column -> cell.   *)
(* A cell is [nan |-> TRUE, v |-> 0] (missing) or [nan |-> FALSE, v |-> n].*)
(***************************************************************************)
EXTENDS Integers, Sequences, FiniteSets

\* ------------------------------------------------------------------ bounds

\* Rows of an input table (extend_timeseries, compute).
MaxRows == 2
\* Successive extend_timeseries calls in one session.
MaxCalls == 2
\* Length of the observed / predicted vectors handed to the metrics.
MaxLen == 2
\* Length of the vectors handed to plot_tsresiduals.
MaxResLen == 3

\* ------------------------------------------------------------- input values

\* Timestamps a caller passes as tmin / tmax, and where the first table starts.
ArgTimes == 1 .. 3
Starts == {1}
\* Native frequencies (ticks), integer steps and durations (ticks) passed as dt.
Freqs == {2}
Steps == {-1, 0, 1}
Durations == {-1, 0, 1}
\* Cell values of compute's table, and of the columns a user function returns.
DfCellVals == {1}
FCellVals == {3}
\* Values of the vectors handed to the metrics and to plot_tsresiduals.
MetricVals == {0, 1, 2}
ResVals == {1, 2, 3}
Labels == {"m1", "m2"}
Kinds == {"ndarray", "Series"}

\* --------------------------------------------------------------- variables

VARIABLES
  df0,      \* extend session: the first input table
  df,       \* extend session: the current table (the last call's result)
  call,     \* extend session: the last call's arguments [tmax, tmin, dt]
  rng,      \* extend session: <<tmin, tmax>> handed to pd.date_range
  ncalls,   \* extend session: calls made
  inp,      \* a single call of compute / plot_tsresiduals / a metric: its inputs
  out,      \* ... its result
  pc        \* ... "ready" before the call, the function's name after it

vars == <<df0, df, call, rng, ncalls, inp, out, pc>>

\* What a variable holds in a specification that does not use it.
Idle == <<>>

\* ------------------------------------------------------------------- cells

NaN == [nan |-> TRUE, v |-> 0]
Num(n) == [nan |-> FALSE, v |-> n]

Range(s) == {s[i] : i \in DOMAIN s}

\* A row of missing values over the given columns.
NaNRow(columns) == [c \in Range(columns) |-> NaN]

\* ------------------------------------------------------- optional arguments

None == [k |-> "None", v |-> 0]
TS(t) == [k |-> "ts", v |-> t]
IntStep(n) == [k |-> "int", v |-> n]
Timedelta(d) == [k |-> "td", v |-> d]

\* ------------------------------------------------------------ index helpers

\* df.index.min() / df.index.max() of a non-empty index.
IndexMin(t) == CHOOSE x \in Range(t.index) : \A z \in Range(t.index) : x <= z
IndexMax(t) == CHOOSE x \in Range(t.index) : \A z \in Range(t.index) : x >= z

\* pd.date_range(tmin, tmax, freq): tmin, tmin + freq, ... up to tmax.
date_range(tmin, tmax, freq) ==
  IF tmax < tmin THEN <<>>
  ELSE [i \in 1 .. ((tmax - tmin) \div freq) + 1 |-> tmin + (i - 1) * freq]

\* A reindex that copies no row: every row of the result is missing.
reindexMissing(t, index, freq) ==
  [index |-> index, freq |-> freq, columns |-> t.columns,
   data |-> [x \in Range(index) |-> NaNRow(t.columns)]]

\* A reindex that keeps the rows of df outside the new index.
reindexKeeping(t, index, freq) ==
  LET keep == SelectSeq(t.index, LAMBDA x : x \notin Range(index))
  IN  [index |-> keep \o index, freq |-> freq, columns |-> t.columns,
       data |-> [x \in Range(keep) \cup Range(index) |->
                   IF x \in Range(t.index) THEN t.data[x]
                   ELSE NaNRow(t.columns)]]

\* df.reindex(index): rows of df at the labels it has, missing rows elsewhere.
reindex(t, index, freq) ==
  [index |-> index, freq |-> freq, columns |-> t.columns,
   data |-> [x \in Range(index) |->
               IF x \in Range(t.index) THEN t.data[x] ELSE NaNRow(t.columns)]]

\* ------------------------------------------------------- extend_timeseries

\* dt left as passed, without the default step.
DefaultDtKept(tmax, tmin, dt) == dt

\* dt after "if tmax is tmin is dt is None: dt = 1".
DefaultDt(tmax, tmin, dt) ==
  IF tmax = None /\ tmin = None /\ dt = None THEN IntStep(1) ELSE dt

BaseMin(t, tmin) == IF tmin = None THEN IndexMin(t) ELSE tmin.v
BaseMax(t, tmax) == IF tmax = None THEN IndexMax(t) ELSE tmax.v

\* The integer branch with the two bounds exchanged.
IntBoundsSwapped(lo, hi, k, freq) ==
  IF k > 0 THEN <<lo - k * freq, hi>>
  ELSE IF k < 0 THEN <<lo, hi - k * freq>>
  ELSE <<lo, hi>>

\* The integer branch: dt multiples of the native frequency, "tmax += dt *
\* freq" for a positive dt and "tmin += dt * freq" for a negative one.
IntBounds(lo, hi, k, freq) ==
  IF k > 0 THEN <<lo, hi + k * freq>>
  ELSE IF k < 0 THEN <<lo + k * freq, hi>>
  ELSE <<lo, hi>>

\* The duration branch: "tmax += dt" for a positive dt, else "tmin -= dt".
TimedeltaBounds(lo, hi, d) ==
  IF d > 0 THEN <<lo, hi + d>> ELSE <<lo - d, hi>>

\* <<tmin, tmax>> as handed to pd.date_range.
Bounds(t, tmax, tmin, dt) ==
  LET d  == DefaultDt(tmax, tmin, dt)
      lo == BaseMin(t, tmin)
      hi == BaseMax(t, tmax)
  IN  IF d = None THEN <<lo, hi>>
      ELSE IF d.k = "int" THEN IntBounds(lo, hi, d.v, t.freq)
      ELSE TimedeltaBounds(lo, hi, d.v)

extend_timeseries(t, tmax, tmin, dt) ==
  LET b == Bounds(t, tmax, tmin, dt)
  IN  reindex(t, date_range(b[1], b[2], t.freq), t.freq)

\* df.index.min() of an empty index is NaT, and pd.date_range refuses NaT:
\* the call returns only when each bound is given or the index is non-empty.
Returns(t, tmax, tmin) ==
  (tmin = None \/ tmax = None) => t.index # <<>>

\* ------------------------------------------------------------ extend session

\* A regular table of n rows starting at t0 with frequency f.
RegularIndex(t0, n, f) == [i \in 1 .. n |-> t0 + (i - 1) * f]

\* The rows of the first table: columns x and y, each value there or missing.
Rows0 == {[x |-> a, y |-> b] : a \in {NaN, Num(1)}, b \in {NaN, Num(2)}}

Tables0 ==
  UNION {UNION {UNION {
    {[index |-> RegularIndex(t0, n, f), freq |-> f, columns |-> <<"x", "y">>,
      data |-> d] :
        d \in [Range(RegularIndex(t0, n, f)) -> Rows0]} :
    f \in Freqs} : n \in 1 .. MaxRows} : t0 \in Starts}

OptTimes == {None} \cup {TS(t) : t \in ArgTimes}
OptDts == {None} \cup {IntStep(k) : k \in Steps}
            \cup {Timedelta(d) : d \in Durations}

InitExtend ==
  /\ df0 \in Tables0
  /\ df = df0
  /\ call = [tmax |-> None, tmin |-> None, dt |-> None]
  /\ rng = <<IndexMin(df0), IndexMax(df0)>>
  /\ ncalls = 0
  /\ inp = Idle /\ out = Idle /\ pc = "extend"

Extend(tmax, tmin, dt) ==
  /\ ncalls < MaxCalls
  /\ Returns(df, tmax, tmin)
  /\ rng' = Bounds(df, tmax, tmin, dt)
  /\ df' = extend_timeseries(df, tmax, tmin, dt)
  /\ call' = [tmax |-> tmax, tmin |-> tmin, dt |-> dt]
  /\ ncalls' = ncalls + 1
  /\ UNCHANGED <<df0, inp, out, pc>>

NextExtend == \E tmax \in OptTimes, tmin \in OptTimes, dt \in OptDts :
                 Extend(tmax, tmin, dt)

SpecExtend == InitExtend /\ [][NextExtend]_vars

\* ------------------------------------------------- extend_timeseries: claims

\* In a step of the session df is the call's input, df' its result, call' its
\* arguments and rng' the bounds it hands to pd.date_range.
OrigMin == df.index[1]
OrigMax == df.index[Len(df.index)]
\* The bounds before the step is applied: the given one, or the original one.
MinBefore == IF call'.tmin = None THEN OrigMin ELSE call'.tmin.v
MaxBefore == IF call'.tmax = None THEN OrigMax ELSE call'.tmax.v
NoArgs == call.tmax = None /\ call.tmin = None /\ call.dt = None

\* C1: extend_timeseries(df) with no tmax, tmin or dt returns the original
\* index plus exactly one row, one native frequency step after the original
\* maximum; the minimum timestamp is unchanged.
C1_Step ==
  NoArgs' =>
     /\ df'.index = Append(df.index, OrigMax + df.freq)
     /\ df'.index[1] = OrigMin

C1_DefaultAddsOneRow == [][C1_Step]_vars

C1_Witness ==
  /\ ncalls = 1 /\ NoArgs /\ Len(df0.index) = 2
  /\ df.index = Append(df0.index, df0.index[2] + df0.freq)

\* C2 (as claimed): a duration dt extends like an integer step: a positive
\* duration moves the max bound later and leaves the min bound, a negative one
\* moves the min bound earlier by its magnitude and leaves the max bound, so
\* the range is never narrower than before the step.
C2_Step ==
  call'.dt.k = "td" =>
     /\ call'.dt.v > 0 => rng' = <<MinBefore, MaxBefore + call'.dt.v>>
     /\ call'.dt.v < 0 => rng' = <<MinBefore + call'.dt.v, MaxBefore>>
     /\ rng'[1] <= MinBefore /\ rng'[2] >= MaxBefore

C2_DurationExtends == [][C2_Step]_vars

\* C3: an integer dt = k is k multiples of the native frequency: k > 0 makes
\* the max bound max + k*freq and leaves the min bound, k < 0 makes the min
\* bound min - |k|*freq and leaves the max bound; the result's index is the
\* regular range between the two bounds.
C3_Step ==
  call'.dt.k = "int" =>
     /\ call'.dt.v > 0 =>
          rng' = <<MinBefore, MaxBefore + call'.dt.v * df.freq>>
     /\ call'.dt.v < 0 =>
          rng' = <<MinBefore + call'.dt.v * df.freq, MaxBefore>>
     /\ \A i \in DOMAIN df'.index :
          df'.index[i] = rng'[1] + (i - 1) * df.freq
     /\ \A x \in rng'[1] .. rng'[2] :
          (x - rng'[1]) % df.freq = 0 => x \in Range(df'.index)

C3_IntegerStep == [][C3_Step]_vars

C3_Witness ==
  /\ ncalls = 1 /\ call.dt.k = "int" /\ call.dt.v < 0
  /\ call.tmin # None /\ call.tmax = None
  /\ rng = <<call.tmin.v + call.dt.v * df0.freq, df0.index[Len(df0.index)]>>
  /\ Len(df.index) > Len(df0.index)

\* C4: with explicit original_min <= tmin <= tmax <= original_max and no dt,
\* the result has no row before tmin or after tmax.
C4_Step ==
  (/\ call'.dt = None /\ call'.tmin # None /\ call'.tmax # None
   /\ df.index # <<>>
   /\ OrigMin <= call'.tmin.v /\ call'.tmin.v <= call'.tmax.v
   /\ call'.tmax.v <= OrigMax) =>
     \A x \in Range(df'.index) : call'.tmin.v <= x /\ x <= call'.tmax.v

C4_NarrowerRangeTruncates == [][C4_Step]_vars

C4_Witness ==
  /\ ncalls = 1 /\ call.dt = None /\ call.tmin # None /\ call.tmax # None
  /\ Len(df0.index) = 2
  /\ df0.index[1] <= call.tmin.v /\ call.tmin.v <= call.tmax.v
  /\ call.tmax.v < df0.index[2]
  /\ df.index = <<df0.index[1]>>

\* C5 (as claimed): after any sequence of calls, every timestamp of the result
\* that is not in the first input is missing in every column and every
\* timestamp that is in the first input holds the first input's values.
C5_RelativeToFirstInput ==
  \A x \in Range(df.index) :
     df.data[x] = IF x \in Range(df0.index) THEN df0.data[x]
                  ELSE NaNRow(df.columns)

\* C5 (amended): each call fills the timestamps its input lacks with missing
\* values in every column and copies its input's row at the timestamps it
\* shares with it; relative to the first input, timestamps outside it are
\* missing and timestamps inside it hold the first input's values or, once a
\* call has dropped them, missing values.
C5_Step ==
  \A x \in Range(df'.index) :
     df'.data[x] = IF x \in Range(df.index) THEN df.data[x]
                   ELSE NaNRow(df'.columns)

C5_FirstInputOrMissing ==
  \A x \in Range(df.index) :
     /\ x \notin Range(df0.index) => df.data[x] = NaNRow(df.columns)
     /\ x \in Range(df0.index) =>
          df.data[x] \in {df0.data[x], NaNRow(df.columns)}

C5_MissingFill == [][C5_Step]_vars /\ []C5_FirstInputOrMissing

C5_Witness ==
  /\ ncalls = 2
  /\ \E x \in Range(df.index) \cap Range(df0.index) :
       df.data[x] = NaNRow(df.columns) /\ df0.data[x] # NaNRow(df.columns)
  /\ \E x \in Range(df.index) \cap Range(df0.index) :
       df.data[x] = df0.data[x] /\ df0.data[x] # NaNRow(df.columns)
  /\ \E x \in Range(df.index) : x \notin Range(df0.index)

\* ------------------------------------------------------------------ floats

\* A float is [k, n, d, rt]: k = "num" is the rational n/d (d > 0, lowest
\* terms), or its square root when rt; k = "inf" is n times infinity
\* (n = 1 or -1); k = "nan" is not-a-number.
RECURSIVE GCD(_, _)
GCD(a, b) == IF b = 0 THEN a ELSE GCD(b, a % b)

Abs(n) == IF n < 0 THEN -n ELSE n
Sign(n) == IF n < 0 THEN -1 ELSE IF n > 0 THEN 1 ELSE 0

FNaN == [k |-> "nan", n |-> 0, d |-> 1, rt |-> FALSE]
FInf(s) == [k |-> "inf", n |-> s, d |-> 1, rt |-> FALSE]
FNum(n, d) ==
  LET g == GCD(Abs(n), Abs(d))
  IN  [k |-> "num", n |-> (Sign(d) * n) \div g, d |-> Abs(d) \div g,
       rt |-> FALSE]

FNeg(a) == IF a.k = "nan" THEN a ELSE [a EXCEPT !.n = -a.n]

FAdd(a, b) ==
  IF a.k = "nan" \/ b.k = "nan" THEN FNaN
  ELSE IF a.k = "inf" /\ b.k = "inf"
         THEN IF a.n = b.n THEN a ELSE FNaN
  ELSE IF a.k = "inf" THEN a
  ELSE IF b.k = "inf" THEN b
  ELSE FNum(a.n * b.d + b.n * a.d, a.d * b.d)

FSub(a, b) == FAdd(a, FNeg(b))

FMul(a, b) ==
  IF a.k = "nan" \/ b.k = "nan" THEN FNaN
  ELSE IF a.k = "inf" \/ b.k = "inf"
         THEN IF a.n = 0 \/ b.n = 0 THEN FNaN
              ELSE FInf(Sign(a.n) * Sign(b.n))
  ELSE FNum(a.n * b.n, a.d * b.d)

\* a / b.  IEEE division as numpy and pandas do it: x/0 is a signed infinity and 0/0
\* is not-a-number (a RuntimeWarning, no exception).
FDiv(a, b) ==
  IF a.k = "nan" \/ b.k = "nan" THEN FNaN
  ELSE IF b.k = "num" /\ b.n = 0
         THEN IF a.n = 0 THEN FNaN ELSE FInf(Sign(a.n))
  ELSE IF a.k = "inf" THEN IF b.k = "inf" THEN FNaN
                           ELSE FInf(a.n * Sign(b.n))
  ELSE IF b.k = "inf" THEN FNum(0, 1)
  ELSE FNum(a.n * b.d, a.d * b.n)

FAbs(a) == IF a.k = "nan" THEN a ELSE [a EXCEPT !.n = Abs(a.n)]

\* ----------------------------------------------------------------- vectors

\* A vector is [kind, idx, v]: a numpy array or a pandas Series of floats v
\* with labels idx (an array's labels are its positions).  The operands of an
\* elementwise operation are over the same labels; its result is a Series
\* when an operand is one.
Join(a, b) == IF a.kind = "Series" \/ b.kind = "Series" THEN "Series"
              ELSE "ndarray"
Positions(n) == [i \in 1 .. n |-> i]
Vec(kind, v) == [kind |-> kind, idx |-> Positions(Len(v)), v |-> v]
\* The labels of the result: those of the Series among the operands.
JoinIdx(a, b) == IF a.kind = "ndarray" /\ b.kind = "Series" THEN b.idx
                 ELSE a.idx

VSub(Y, y) == [kind |-> Join(Y, y), idx |-> JoinIdx(Y, y),
               v |-> [i \in DOMAIN Y.v |-> FSub(Y.v[i], y.v[i])]]
VDiv(Y, y) == [kind |-> Join(Y, y), idx |-> JoinIdx(Y, y),
               v |-> [i \in DOMAIN Y.v |-> FDiv(Y.v[i], y.v[i])]]
VSquare(a) == [a EXCEPT !.v = [i \in DOMAIN a.v |-> FMul(a.v[i], a.v[i])]]
np_abs(a) == [a EXCEPT !.v = [i \in DOMAIN a.v |-> FAbs(a.v[i])]]

RECURSIVE FSum(_)
FSum(s) == IF s = <<>> THEN FNum(0, 1)
           ELSE FAdd(FSum(SubSeq(s, 1, Len(s) - 1)), s[Len(s)])

\* A mean that keeps a not-a-number whatever the kind of vector.
np_mean_keepna(a) ==
  IF a.v = <<>> THEN FNaN ELSE FDiv(FSum(a.v), FNum(Len(a.v), 1))

\* np.mean(a): ndarray.mean() keeps a not-a-number; for a Series np.mean
\* calls Series.mean(), which skips the missing values (skipna=True).  The mean
\* of nothing is not-a-number.
np_mean(a) ==
  LET vals == IF a.kind = "Series"
                THEN SelectSeq(a.v, LAMBDA x : x.k # "nan") ELSE a.v
  IN  IF vals = <<>> THEN FNaN ELSE FDiv(FSum(vals), FNum(Len(vals), 1))

\* np.sqrt of a non-negative float.
np_sqrt(x) == IF x.k = "num" THEN [x EXCEPT !.rt = TRUE] ELSE x

\* ----------------------------------------------------------------- metrics

\* np.sqrt(np.mean((Y-y)**2))
RMSE(Y, y) == np_sqrt(np_mean(VSquare(VSub(Y, y))))

\* The mean error, without np.abs.
MAE_signed(Y, y) == np_mean(VSub(Y, y))

\* np.mean(np.abs(Y-y))
MAE(Y, y) == np_mean(np_abs(VSub(Y, y)))

\* 100 * np.mean(np.abs((Y-y)/Y))
MAPE(Y, y) == FMul(FNum(100, 1), np_mean(np_abs(VDiv(VSub(Y, y), Y))))

\* A MASE that computes an error from its arguments.
MASE_as_MAE(Y, y) == np_mean(np_abs(VSub(Y, y)))

\* "return np.nan # TODO"
MASE(Y, y) == FNaN

\* tsaccuracy(Ytest, models): one row per model (by label), one column per
\* metric; models maps a label to the model's prediction over Ytest's range.
tsaccuracy(Ytest, models) ==
  [label \in DOMAIN models |->
     [RMSE |-> RMSE(Ytest, models[label]), MAE |-> MAE(Ytest, models[label]),
      MAPE |-> MAPE(Ytest, models[label]), MASE |-> MASE(Ytest, models[label])]]

\* ---------------------------------------------------------- metric sessions

MetricFloats == {FNaN} \cup {FNum(n, 1) : n \in MetricVals}
FloatSeqs(vals, n) == UNION {[1 .. m -> vals] : m \in 0 .. n}
Vectors(vals, n) == {Vec(kd, s) : kd \in Kinds, s \in FloatSeqs(vals, n)}
SeriesOf(vals, n) == {Vec("Series", s) : s \in FloatSeqs(vals, n)}
\* Vectors over the same positions as Y.
Aligned(vecs, Y) == {y \in vecs : Len(y.v) = Len(Y.v)}

\* tsaccuracy reads Ytest.index, so Ytest is a Series; each model predicts
\* over Ytest.index.min() .. Ytest.index.max().
TsaccuracyInput ==
  \E Y \in SeriesOf(MetricFloats, MaxLen), ls \in SUBSET Labels \ {{}} :
     \E m \in [ls -> Aligned(SeriesOf(MetricFloats, MaxLen), Y)] :
        inp = [f |-> "tsaccuracy", Y |-> Y, models |-> m]

\* A direct call f(Y, y) of one metric on vectors over the same positions;
\* MASE is also called on vectors of different lengths.
MetricInput ==
  \E f \in {"RMSE", "MAE", "MAPE", "MASE"}, Y \in Vectors(MetricFloats, MaxLen) :
     \E y \in IF f = "MASE" THEN Vectors(MetricFloats, MaxLen)
              ELSE Aligned(Vectors(MetricFloats, MaxLen), Y) :
        inp = [f |-> f, Y |-> Y, models |-> [l \in {"y"} |-> y]]

InitMetrics ==
  /\ TsaccuracyInput \/ MetricInput
  /\ out = Idle /\ pc = "ready"
  /\ df0 = Idle /\ df = Idle /\ call = Idle /\ rng = Idle /\ ncalls = 0

CallTsaccuracy ==
  /\ pc = "ready" /\ inp.f = "tsaccuracy"
  /\ out' = tsaccuracy(inp.Y, inp.models)
  /\ pc' = "tsaccuracy"
  /\ UNCHANGED <<df0, df, call, rng, ncalls, inp>>

CallMetric ==
  /\ pc = "ready" /\ inp.f \in {"RMSE", "MAE", "MAPE", "MASE"}
  /\ out' = CASE inp.f = "RMSE" -> RMSE(inp.Y, inp.models["y"])
              [] inp.f = "MAE" -> MAE(inp.Y, inp.models["y"])
              [] inp.f = "MAPE" -> MAPE(inp.Y, inp.models["y"])
              [] inp.f = "MASE" -> MASE(inp.Y, inp.models["y"])
  /\ pc' = inp.f
  /\ UNCHANGED <<df0, df, call, rng, ncalls, inp>>

NextMetrics == CallTsaccuracy \/ CallMetric

SpecMetrics == InitMetrics /\ [][NextMetrics]_vars

\* ------------------------------------------------------- metrics: claims

\* The (observed, predicted, row of metrics) triples of the last call, over
\* vectors of equal length.
MetricRow(Y, y) == [RMSE |-> RMSE(Y, y), MAE |-> MAE(Y, y),
                    MAPE |-> MAPE(Y, y), MASE |-> MASE(Y, y)]
Calls ==
  IF pc = "tsaccuracy"
    THEN {[Y |-> inp.Y, y |-> inp.models[l], row |-> out[l]] :
            l \in DOMAIN inp.models}
  ELSE IF pc \in {"RMSE", "MAE", "MAPE"}
    THEN {[Y |-> inp.Y, y |-> inp.models["y"],
           row |-> [MetricRow(inp.Y, inp.models["y"]) EXCEPT ![pc] = out]]}
  ELSE {}

NoMissing(a) == \A i \in DOMAIN a.v : a.v[i].k = "num"
IsZero(x) == x.k = "num" /\ x.n = 0
HasZero(a) == \E i \in DOMAIN a.v : IsZero(a.v[i])

\* C6: MASE(Y, y) is not-a-number for every pair of inputs (empty, of
\* different lengths, with missing values), and so is the MASE entry of every
\* row of tsaccuracy.
C6_MASEIsNaN ==
  /\ pc = "MASE" => out = FNaN
  /\ pc = "tsaccuracy" => \A l \in DOMAIN out : out[l].MASE = FNaN

C6_Witness ==
  /\ pc = "tsaccuracy" /\ DOMAIN out = Labels
  /\ \A l \in Labels : out[l].MAE.k = "num" /\ out[l].MAE.n > 0

\* The square of a non-negative float, as <<numerator, denominator>>.
Squared(x) == IF x.rt THEN <<x.n, x.d>> ELSE <<x.n * x.n, x.d * x.d>>
\* a >= b for non-negative finite floats.
FGeq(a, b) == Squared(a)[1] * Squared(b)[2] >= Squared(b)[1] * Squared(a)[2]

\* C7: for non-empty vectors of equal length without missing values,
\* RMSE(Y, y) >= MAE(Y, y) >= 0.
C7_RMSEAtLeastMAE ==
  \A c \in Calls :
     (c.Y.v # <<>> /\ NoMissing(c.Y) /\ NoMissing(c.y)) =>
        /\ c.row.RMSE.k = "num" /\ c.row.MAE.k = "num"
        /\ c.row.MAE.n >= 0 /\ c.row.RMSE.n >= 0
        /\ FGeq(c.row.RMSE, c.row.MAE)

C7_Witness ==
  /\ pc = "tsaccuracy"
  /\ \E c \in Calls :
       /\ NoMissing(c.Y) /\ NoMissing(c.y) /\ Len(c.Y.v) = 2
       /\ c.row.MAE.n > 0
       /\ ~FGeq(c.row.MAE, c.row.RMSE)
       /\ \E i \in DOMAIN c.Y.v : c.Y.v[i].n < c.y.v[i].n

\* C10 (as claimed): when an observed value is zero, MAPE returns a non-finite
\* result whatever the predicted values are.
C10_ZeroObservedNonFinite ==
  \A c \in Calls :
     (pc \in {"tsaccuracy", "MAPE"} /\ HasZero(c.Y)) =>
        c.row.MAPE.k \in {"inf", "nan"}

\* A position whose ratio |(Y-y)/Y| is infinite / is a number or infinite.
InfiniteAt(c, i) ==
  IsZero(c.Y.v[i]) /\ c.y.v[i].k = "num" /\ c.y.v[i].n # 0
DefinedAt(c, i) ==
  /\ c.Y.v[i].k = "num" /\ c.y.v[i].k = "num"
  /\ ~(IsZero(c.Y.v[i]) /\ IsZero(c.y.v[i]))

\* C10 (amended): when an observed value is zero MAPE returns (it does not
\* raise); on numpy arrays the result is non-finite; on pandas Series a 0/0
\* position is skipped like a missing value, so the result is infinite iff a
\* zero observation has a defined non-zero prediction, not-a-number iff no
\* position has a defined ratio, and otherwise the finite mean over the
\* positions that have one.
C10_ZeroObserved ==
  \A c \in Calls :
     (pc \in {"tsaccuracy", "MAPE"} /\ HasZero(c.Y)) =>
        /\ c.row.MAPE.k \in {"num", "inf", "nan"}
        /\ Join(c.Y, c.y) = "ndarray" => c.row.MAPE.k \in {"inf", "nan"}
        /\ Join(c.Y, c.y) = "Series" =>
             /\ c.row.MAPE.k = "inf" <=>
                  \E i \in DOMAIN c.Y.v : InfiniteAt(c, i)
             /\ c.row.MAPE.k = "nan" <=>
                  \A i \in DOMAIN c.Y.v : ~DefinedAt(c, i)
             /\ c.row.MAPE.k = "num" =>
                  c.row.MAPE =
                    FMul(FNum(100, 1),
                         FDiv(FSum(SelectSeq(np_abs(VDiv(VSub(c.Y, c.y), c.Y)).v,
                                             LAMBDA x : x.k = "num")),
                              FNum(Cardinality({i \in DOMAIN c.Y.v :
                                                  DefinedAt(c, i)}), 1)))

C10_Witness ==
  /\ pc = "tsaccuracy"
  /\ \E c \in Calls :
       /\ HasZero(c.Y) /\ c.row.MAPE.k = "num" /\ c.row.MAPE.n > 0
       /\ \E i \in DOMAIN c.Y.v : IsZero(c.Y.v[i]) /\ IsZero(c.y.v[i])

\* -------------------------------------------------------- plot_tsresiduals

\* np.isnan(a), elementwise.
np_isnan(a) == [i \in DOMAIN a.v |-> a.v[i].k = "nan"]

\* mask = ~(np.isnan(Y) | np.isnan(y))
ResidualMask(Y, y) ==
  [i \in DOMAIN Y.v |-> ~(np_isnan(Y)[i] \/ np_isnan(y)[i])]

\* a[mask]: the entries where mask holds; a Series keeps their labels, an
\* array is renumbered.
BooleanIndex(a, mask) ==
  LET keep == SelectSeq(Positions(Len(a.v)), LAMBDA i : mask[i])
  IN  [kind |-> a.kind,
       idx |-> IF a.kind = "Series" THEN [j \in DOMAIN keep |-> a.idx[keep[j]]]
               ELSE Positions(Len(keep)),
       v |-> [j \in DOMAIN keep |-> a.v[keep[j]]]]

\* The other convention, "dy = y - Y" (predicted minus observed).
ResidualsPredictedMinusObserved(Y, y) ==
  LET mask == ResidualMask(Y, y)
  IN  VSub(BooleanIndex(y, mask), BooleanIndex(Y, mask))

\* "Y, y = Y[mask], y[mask]" and "dy = Y - y" (observed minus predicted).
Residuals(Y, y) ==
  LET mask == ResidualMask(Y, y)
  IN  VSub(BooleanIndex(Y, mask), BooleanIndex(y, mask))

\* a < b for finite floats that are not square roots.
FLess(a, b) == a.n * b.d < b.n * a.d
\* Python's max(a, b): b when b > a, else a.
PyMax(a, b) == IF FLess(a, b) THEN b ELSE a
RECURSIVE SeqMax(_)
SeqMax(s) == IF Len(s) = 1 THEN s[1]
             ELSE PyMax(SeqMax(SubSeq(s, 1, Len(s) - 1)), s[Len(s)])

\* lim = 1.1 * max(-dy.min(), dy.max()): the minimum of an empty array raises
\* ValueError, that of an empty Series is not-a-number.
ResidualLimit(dy) ==
  IF dy.v = <<>> THEN FNaN
  ELSE FMul(FNum(11, 10),
            PyMax(SeqMax([i \in DOMAIN dy.v |-> FNeg(dy.v[i])]), SeqMax(dy.v)))

\* The residuals and the plot limit of plot_tsresiduals(Y, y); the drawing
\* calls that follow (matplotlib, seaborn, statsmodels) only read them.
plot_tsresiduals(Y, y) ==
  LET dy == Residuals(Y, y)
  IN  [dy |-> dy, lim |-> ResidualLimit(dy),
       raised |-> dy.v = <<>> /\ dy.kind = "ndarray"]

ResFloats == {FNaN} \cup {FNum(n, 1) : n \in ResVals}

InitResiduals ==
  /\ \E Y \in Vectors(ResFloats, MaxResLen) :
        \E y \in Aligned(Vectors(ResFloats, MaxResLen), Y) :
           inp = [f |-> "plot_tsresiduals", Y |-> Y, y |-> y]
  /\ out = Idle /\ pc = "ready"
  /\ df0 = Idle /\ df = Idle /\ call = Idle /\ rng = Idle /\ ncalls = 0

CallPlotTsresiduals ==
  /\ pc = "ready" /\ inp.f = "plot_tsresiduals"
  /\ out' = plot_tsresiduals(inp.Y, inp.y)
  /\ pc' = "plot_tsresiduals"
  /\ UNCHANGED <<df0, df, call, rng, ncalls, inp>>

NextResiduals == CallPlotTsresiduals

SpecResiduals == InitResiduals /\ [][NextResiduals]_vars

\* C8: the residual series has one entry, observed minus predicted, at each
\* position where both Y and y are defined, and none elsewhere; Y = [1,2,3],
\* y = [1,1,1] gives [0,1,2].
BothDefined == {i \in DOMAIN inp.Y.v :
                  inp.Y.v[i].k = "num" /\ inp.y.v[i].k = "num"}
FloatsOf(ns) == [i \in DOMAIN ns |-> FNum(ns[i], 1)]

C8_Residuals ==
  pc = "plot_tsresiduals" =>
     /\ Len(out.dy.v) = Cardinality(BothDefined)
     /\ \A j \in DOMAIN out.dy.v :
          \E i \in BothDefined :
             /\ Cardinality({m \in BothDefined : m <= i}) = j
             /\ out.dy.v[j] = FNum(inp.Y.v[i].n - inp.y.v[i].n, 1)
             /\ out.dy.kind = "Series" => out.dy.idx[j] = inp.Y.idx[i]
     /\ (inp.Y.v = FloatsOf(<<1, 2, 3>>) /\ inp.y.v = FloatsOf(<<1, 1, 1>>))
          => out.dy.v = FloatsOf(<<0, 1, 2>>)

C8_Witness ==
  /\ pc = "plot_tsresiduals"
  /\ inp.Y.v = FloatsOf(<<1, 2, 3>>) /\ inp.y.v = FloatsOf(<<1, 1, 1>>)
  /\ out.dy.v = FloatsOf(<<0, 1, 2>>)

\* ------------------------------------------------------------------ compute

\* pd.DataFrame(f(df), index=df.index): what f returns, over df's rows.
DataFrame(f, index, freq) == reindex(f, index, freq)

\* dropcols = [col for col in newdf.columns if col in df.columns]
DropCols(t, newdf) ==
  SelectSeq(newdf.columns, LAMBDA c : c \in Range(t.columns))

\* df.drop(columns=dropcols)
drop(t, dropcols) ==
  LET left == SelectSeq(t.columns, LAMBDA c : c \notin Range(dropcols))
  IN  [t EXCEPT !.columns = left,
                !.data = [x \in Range(t.index) |->
                            [c \in Range(left) |-> t.data[x][c]]]]

\* df left with the columns f replaces.
DropOverlapNever(t, dropcols) == t

\* "if dropcols: df = df.drop(columns=dropcols)"
DropOverlap(t, dropcols) == IF dropcols # <<>> THEN drop(t, dropcols) ELSE t

\* df.join(newdf): df's rows, df's columns followed by newdf's.
join(t, newdf) ==
  [t EXCEPT !.columns = t.columns \o newdf.columns,
            !.data = [x \in Range(t.index) |->
                        [c \in Range(t.columns) \cup Range(newdf.columns) |->
                           IF c \in Range(t.columns) THEN t.data[x][c]
                           ELSE IF x \in Range(newdf.index)
                                  THEN newdf.data[x][c] ELSE NaN]]]

compute(t, f) ==
  LET newdf == DataFrame(f, t.index, t.freq)
  IN  join(DropOverlap(t, DropCols(t, newdf)), newdf)

\* Sequences without repetition over a set of names.
ColumnSeqs(names) ==
  {s \in UNION {[1 .. m -> names] : m \in 0 .. Cardinality(names)} :
     \A i, j \in DOMAIN s : s[i] = s[j] => i = j}
\* The sub-sequences of an index.
SubIndexes(index) ==
  {SelectSeq(index, LAMBDA x : x \in keep) : keep \in SUBSET Range(index)}
TablesOver(index, columns, cells) ==
  {[index |-> index, freq |-> 0, columns |-> columns, data |-> d] :
     d \in [Range(index) -> [Range(columns) -> cells]]}

DfCells == {NaN} \cup {Num(n) : n \in DfCellVals}
FCells == {NaN} \cup {Num(n) : n \in FCellVals}

\* df has columns among a, b; f(df) has columns among b, c over rows of df.
InitCompute ==
  /\ \E n \in 1 .. MaxRows, cs \in ColumnSeqs({"a", "b"}),
        fcs \in ColumnSeqs({"b", "c"}) \ {<<>>} :
        \E fi \in SubIndexes(Positions(n)) :
           \E t \in TablesOver(Positions(n), cs, DfCells),
              f \in TablesOver(fi, fcs, FCells) :
              inp = [f |-> "compute", df |-> t, fdf |-> f]
  /\ out = Idle /\ pc = "ready"
  /\ df0 = Idle /\ df = Idle /\ call = Idle /\ rng = Idle /\ ncalls = 0

CallCompute ==
  /\ pc = "ready" /\ inp.f = "compute"
  /\ out' = compute(inp.df, inp.fdf)
  /\ pc' = "compute"
  /\ UNCHANGED <<df0, df, call, rng, ncalls, inp>>

NextCompute == CallCompute

SpecCompute == InitCompute /\ [][NextCompute]_vars

\* C9: compute(df, f) has df's rows; every column f produces is there once,
\* with f's values (missing at a row f returns nothing for), in place of any
\* column of df of that name; every other column of df is there with its
\* values; no column name occurs twice.
Occurrences(s, c) == Cardinality({i \in DOMAIN s : s[i] = c})

C9_Compute ==
  pc = "compute" =>
     /\ out.index = inp.df.index
     /\ DOMAIN out.data = Range(inp.df.index)
     /\ \A c \in Range(out.columns) : Occurrences(out.columns, c) = 1
     /\ Range(out.columns) = Range(inp.df.columns) \cup Range(inp.fdf.columns)
     /\ \A x \in Range(out.index) :
          /\ DOMAIN out.data[x] = Range(out.columns)
          /\ \A c \in Range(inp.fdf.columns) :
               out.data[x][c] = IF x \in Range(inp.fdf.index)
                                  THEN inp.fdf.data[x][c] ELSE NaN
          /\ \A c \in Range(inp.df.columns) \ Range(inp.fdf.columns) :
               out.data[x][c] = inp.df.data[x][c]

C9_Witness ==
  /\ pc = "compute"
  /\ inp.df.columns = <<"a", "b">> /\ inp.fdf.columns = <<"b", "c">>
  /\ out.columns = <<"a", "b", "c">>
  /\ \E x \in Range(out.index) :
       /\ inp.df.data[x]["b"] = Num(1) /\ out.data[x]["b"] = Num(3)
       /\ out.data[x]["a"] = Num(1)

====
